---- MODULE Spec2Model ----
(*************************************************************************)
(* Model of the RAMS configuration object (uber/config.py) and of the    *)
(* API token controller (uber/site_sections/api.py).                     *)
(*                                                                       *)
(* Spec       the API token controller: index, create_api_token and      *)
(*            revoke_api_token over the ApiToken table.                  *)
(* SpecPrice  Config.get_attendee_price over the configured price bumps  *)
(*            and price limits, as the date advances and badges sell.    *)
(* SpecAttr   Config.__getattr__, the fallback chain for attributes that *)
(*            are not defined on the config object.                      *)
(*************************************************************************)
EXTENDS Integers, Sequences, FiniteSets, TLC

\* ---------------------------------------------------------------------
\* Bounds
\* ---------------------------------------------------------------------
MaxTokens == 2
MaxTime == 1
MaxDay == 2
MaxSold == 2
MaxStock == 2
MaxCount == 2

\* ---------------------------------------------------------------------
\* Values shared by both parts
\* ---------------------------------------------------------------------
\* Python's None for an optional value: <<>>; a present value v is <<v>>.
None == <<>>

Some(v) == <<v>>

VARIABLES
    api_tokens,     \* the ApiToken table: id -> record
    utcnow,         \* the clock read by datetime.utcnow()
    access_ints,    \* AdminAccount.access_ints of every account
    request,        \* the request of the latest handler call
    response        \* what that call returned or raised

VARIABLES
    pricing,        \* the settings of c that get_attendee_price reads
    localized_now,  \* the clock read by sa.localized_now()
    badges_sold,    \* what the BADGES_SOLD query counts in the database
    attrs,          \* the attributes defined on c: name -> value
    config_secret,  \* _config['secret']: lower-case option name -> value
    ADMIN_ACCESS_SET,  \* sa.AdminAccount.access_set() of the current admin
    attendees,      \* completed badges in the database, per badge type
    read            \* the value the current request read from c

VARIABLES
    DATES,          \* c.DATES: upper-case option name -> datetime
    threadlocal,    \* the request's cache of request_cached_property values
    request_reads,  \* the current request's reads of c: name -> first, last
    DONATION_TIER_DESCRIPTIONS,  \* c.DONATION_TIER_DESCRIPTIONS: tier -> dict
    REQUIRED_ACCESS,  \* c.REQUIRED_ACCESS: access level -> set of levels
    BADGE_TYPE_PRICES  \* c.BADGE_TYPE_PRICES: badge type -> price

storeVars == <<DATES, threadlocal, request_reads,
               DONATION_TIER_DESCRIPTIONS, REQUIRED_ACCESS, BADGE_TYPE_PRICES>>

tokVars == <<api_tokens, utcnow, access_ints, request, response>>

attrVars == <<attrs, config_secret, ADMIN_ACCESS_SET, attendees, storeVars>>

cfgVars == <<pricing, localized_now, badges_sold, read,
             attrs, config_secret, ADMIN_ACCESS_SET, attendees, storeVars>>

vars == <<api_tokens, utcnow, access_ints, request, response,
          pricing, localized_now, badges_sold, read,
          attrs, config_secret, ADMIN_ACCESS_SET, attendees, storeVars>>

\* ---------------------------------------------------------------------
\* API token controller (uber/site_sections/api.py)
\* ---------------------------------------------------------------------
NoTokens == [i \in {} |-> 0]

Accounts == {"acct1", "acct2"}

\* c.ADMIN and c.API_READ: create_enum_val of the access level names
ADMIN == 37271822

API_READ == 15761075

Methods == {"GET", "POST"}

\* uuid primary key of the n-th token ever created
NewId(n) == ToString(n)

\* the id argument of revoke_api_token: not passed, empty, or an id
IdArgs == {None, Some("")} \cup {Some(NewId(n)) : n \in 1..(MaxTokens + 1)}

\* the fields a create request supplies
ParamSets == [name : {"", "token"}, admin_account_id : Accounts]

NoRequest == [op |-> "none", method |-> "GET", account_id |-> "acct1",
              show_revoked |-> FALSE, id |-> None,
              params |-> [name |-> "", admin_account_id |-> "acct1"]]

NoResponse == [kind |-> "none", api_tokens |-> <<>>, result |-> "",
               error |-> "", location |-> ""]

\* faulty variant: only a missing id counts as "no identifier"
Falsy_OnlyNone(id) == id = None

\* Python truthiness of the id argument ("not id")
Falsy(id) == id = None \/ id = Some("")

\* query.filter_by(admin_account_id=admin_account.id)
filter_by_admin_account(q, account_id) ==
    {i \in q : api_tokens[i].admin_account_id = account_id}

\* faulty variant: the revoked filter keeps every row
filter_not_revoked_KeepsAll(q) == q

\* query.filter(ApiToken.revoked_time == None)
filter_not_revoked(q) ==
    {i \in q : api_tokens[i].revoked_time = None}

\* query.order_by(ApiToken.issued_time).all(): every listing of q in
\* ascending issued_time (rows with equal issued_time in either order)
order_by_issued_time(q) ==
    {s \in [1..Cardinality(q) -> q] :
        /\ \A i, j \in 1..Cardinality(q) : i /= j => s[i] /= s[j]
        /\ \A i, j \in 1..Cardinality(q) :
              i < j => api_tokens[s[i]].issued_time <= api_tokens[s[j]].issued_time}

\* faulty variant: the ownership filter is skipped
index_query_NoOwnerFilter(account_id, show_revoked) ==
    IF ~show_revoked THEN filter_not_revoked(DOMAIN api_tokens) ELSE DOMAIN api_tokens

\* the query built by index before ordering
index_query(account_id, show_revoked) ==
    LET q0 == DOMAIN api_tokens
        q1 == IF ADMIN \notin access_ints[account_id]
              THEN filter_by_admin_account(q0, account_id)
              ELSE q0
        q2 == IF ~show_revoked THEN filter_not_revoked(q1) ELSE q1
    IN q2

index(account_id, show_revoked) ==
    /\ \E listing \in order_by_issued_time(index_query(account_id, show_revoked)) :
          response' = [NoResponse EXCEPT !.kind = "page", !.api_tokens = listing]
    /\ request' = [NoRequest EXCEPT !.op = "index", !.account_id = account_id,
                                    !.show_revoked = show_revoked]
    /\ UNCHANGED <<api_tokens, utcnow, access_ints>>
    /\ UNCHANGED cfgVars

\* session.api_token(params): a new ApiToken built from the request fields
new_api_token(params) ==
    [admin_account_id |-> params.admin_account_id,
     name |-> params.name,
     issued_time |-> utcnow,
     revoked_time |-> None]

\* check(api_token): the first validation message, '' when the token is valid
check(api_token) ==
    IF api_token.name = "" THEN "Name is a required field" ELSE ""

\* faulty variant: the row replaces the table instead of being added to it
session_add_Replaces(table, id, api_token) ==
    [i \in {id} |-> api_token]

\* session.add(api_token); session.commit()
session_add(table, id, api_token) ==
    [i \in DOMAIN table \cup {id} |-> IF i = id THEN api_token ELSE table[i]]

\* faulty variant: the token is committed whatever check returned
persist_if_valid_Always(message, table, id, api_token) ==
    session_add(table, id, api_token)

\* "if not message: session.add; session.commit" else "session.rollback"
persist_if_valid(message, table, id, api_token) ==
    IF message = "" THEN session_add(table, id, api_token) ELSE table

\* faulty variant: the admin_account_id of the request parameters is kept
with_session_account_AsGiven(params, account_id) == params

\* params['admin_account_id'] = cherrypy.session['account_id']
with_session_account(params, account_id) ==
    [params EXCEPT !.admin_account_id = account_id]

create_api_token(method, account_id, params) ==
    /\ request' = [NoRequest EXCEPT !.op = "create_api_token", !.method = method,
                                    !.account_id = account_id, !.params = params]
    /\ IF method = "POST"
       THEN LET params2 == with_session_account(params, account_id)
                api_token == new_api_token(params2)
                message == check(api_token)
                id == NewId(Cardinality(DOMAIN api_tokens) + 1)
            IN IF message = ""
               THEN /\ Cardinality(DOMAIN api_tokens) < MaxTokens
                    /\ api_tokens' = persist_if_valid(message, api_tokens, id, api_token)
                    /\ response' = [NoResponse EXCEPT !.kind = "result", !.result = id]
               ELSE /\ api_tokens' = persist_if_valid(message, api_tokens, id, api_token)
                    /\ response' = [NoResponse EXCEPT !.kind = "error", !.error = message]
       ELSE /\ api_tokens' = api_tokens
            /\ response' = [NoResponse EXCEPT !.kind = "error", !.error = "POST required"]
    /\ UNCHANGED <<utcnow, access_ints>>
    /\ UNCHANGED cfgVars

\* faulty variant: revoking a revoked token clears its revoked_time
set_revoked_time_Toggles(api_token, now) ==
    [api_token EXCEPT !.revoked_time =
        IF api_token.revoked_time = None THEN Some(now) ELSE None]

\* faulty variant: revoking also stamps the issued time
set_revoked_time_AlsoIssued(api_token, now) ==
    [api_token EXCEPT !.revoked_time = Some(now), !.issued_time = now + 1]

\* api_token.revoked_time = datetime.utcnow().replace(tzinfo=pytz.UTC)
set_revoked_time(api_token, now) ==
    [api_token EXCEPT !.revoked_time = Some(now)]

revoke_api_token(method, account_id, id) ==
    /\ request' = [NoRequest EXCEPT !.op = "revoke_api_token", !.method = method,
                                    !.account_id = account_id, !.id = id]
    /\ IF Falsy(id) \/ ~(method = "POST")
       THEN /\ api_tokens' = api_tokens
            /\ response' = [NoResponse EXCEPT !.kind = "redirect", !.location = "index"]
       ELSE IF id[1] \in DOMAIN api_tokens
            THEN /\ api_tokens' = [api_tokens EXCEPT
                                      ![id[1]] = set_revoked_time(@, utcnow)]
                 /\ response' = [NoResponse EXCEPT !.kind = "redirect",
                        !.location = "index?message=Successfully revoked API token"]
            ELSE \* session.api_token(id) finds no row and raises
                 /\ api_tokens' = api_tokens
                 /\ response' = [NoResponse EXCEPT !.kind = "raise",
                                                   !.error = "NoResultFound"]
    /\ UNCHANGED <<utcnow, access_ints>>
    /\ UNCHANGED cfgVars

\* the request is over and time passes
Tick ==
    /\ utcnow < MaxTime
    /\ utcnow' = utcnow + 1
    /\ request' = NoRequest
    /\ response' = NoResponse
    /\ UNCHANGED <<api_tokens, access_ints>>
    /\ UNCHANGED cfgVars

\* ---------------------------------------------------------------------
\* Attendee price (uber/config.py, Config.get_attendee_price)
\* ---------------------------------------------------------------------
\* amounts a price setting may hold
Prices == {40, 50, 60}

\* dates a price bump may be keyed by
BumpDays == {1, 2}

\* dates the event may start on
EpochDays == {2, 3}

\* badge caps a price limit may be keyed by
BadgeCaps == {1, 2}

\* every dict with keys among K and values among V
Dicts(K, V) == UNION {[D -> V] : D \in SUBSET K}

EmptyDict == [k \in {} |-> 0]

NoPricing == [INITIAL_ATTENDEE |-> 40, PRICE_BUMPS_ENABLED |-> FALSE,
              PRICE_BUMPS |-> EmptyDict, PRICE_LIMITS |-> EmptyDict,
              HARDCORE_OPTIMIZATIONS_ENABLED |-> FALSE, EPOCH |-> 1]

NoRead == [kind |-> "none", dt |-> None, price |-> 0, arg |-> <<>>,
           name |-> <<>>, rule |-> "", result |-> [t |-> "None", v |-> 0, name |-> <<>>]]

Min(S) == CHOOSE x \in S : \A y \in S : x <= y

Max(S) == CHOOSE x \in S : \A y \in S : y <= x

\* sorted(d.items()): the keys of d in ascending order
RECURSIVE sorted_keys(_)
sorted_keys(K) ==
    IF K = {} THEN <<>> ELSE <<Min(K)>> \o sorted_keys(K \ {Min(K)})

\* faulty variant: a bump applies only strictly after its date
RECURSIVE apply_price_bumps_Strict(_, _, _, _)
apply_price_bumps_Strict(days, bumps, ref, price) ==
    IF days = <<>> THEN price
    ELSE apply_price_bumps_Strict(Tail(days), bumps, ref,
            IF ref > Head(days) THEN bumps[Head(days)] ELSE price)

\* the loop over sorted(PRICE_BUMPS.items()): "if ref >= day: price = bumped"
RECURSIVE apply_price_bumps(_, _, _, _)
apply_price_bumps(days, bumps, ref, price) ==
    IF days = <<>> THEN price
    ELSE apply_price_bumps(Tail(days), bumps, ref,
            IF ref >= Head(days) THEN bumps[Head(days)] ELSE price)

\* faulty variant: the limit loop lost its "bumped_price > price" test
RECURSIVE apply_price_limits_NoCompare(_, _, _, _)
apply_price_limits_NoCompare(caps, limits, sold, price) ==
    IF caps = <<>> THEN price
    ELSE apply_price_limits_NoCompare(Tail(caps), limits, sold,
            IF sold >= Head(caps) THEN limits[Head(caps)] ELSE price)

\* the loop over sorted(PRICE_LIMITS.items()):
\* "if badges_sold >= badge_cap and bumped_price > price: price = bumped"
RECURSIVE apply_price_limits(_, _, _, _)
apply_price_limits(caps, limits, sold, price) ==
    IF caps = <<>> THEN price
    ELSE apply_price_limits(Tail(caps), limits, sold,
            IF sold >= Head(caps) /\ limits[Head(caps)] > price
            THEN limits[Head(caps)] ELSE price)

\* get_attendee_price(dt) of configuration cfg, at clock now with sold badges
get_attendee_price(cfg, dt, now, sold) ==
    LET ref == IF dt /= None THEN dt[1] ELSE now
        price0 == cfg.INITIAL_ATTENDEE
    IN IF cfg.PRICE_BUMPS_ENABLED
       THEN LET price1 == apply_price_bumps(sorted_keys(DOMAIN cfg.PRICE_BUMPS),
                                            cfg.PRICE_BUMPS, ref, price0)
            IN IF dt = None /\ ~cfg.HARDCORE_OPTIMIZATIONS_ENABLED /\ now < cfg.EPOCH
               THEN apply_price_limits(sorted_keys(DOMAIN cfg.PRICE_LIMITS),
                                       cfg.PRICE_LIMITS, sold, price1)
               ELSE price1
       ELSE price0

\* a request reads c.BADGE_PRICE, that is get_attendee_price()
BADGE_PRICE ==
    /\ read' = [NoRead EXCEPT !.kind = "price", !.dt = None,
                !.price = get_attendee_price(pricing, None, localized_now, badges_sold)]
    /\ UNCHANGED <<pricing, localized_now, badges_sold>>
    /\ UNCHANGED attrVars
    /\ UNCHANGED tokVars

\* a request prices an existing badge: get_attendee_price(dt)
PriceAt(dt) ==
    /\ read' = [NoRead EXCEPT !.kind = "price", !.dt = Some(dt),
                !.price = get_attendee_price(pricing, Some(dt), localized_now, badges_sold)]
    /\ UNCHANGED <<pricing, localized_now, badges_sold>>
    /\ UNCHANGED attrVars
    /\ UNCHANGED tokVars

\* the request is over and the date advances
NextDay ==
    /\ localized_now < MaxDay
    /\ localized_now' = localized_now + 1
    /\ read' = NoRead
    /\ UNCHANGED <<pricing, badges_sold>>
    /\ UNCHANGED attrVars
    /\ UNCHANGED tokVars

\* the request is over and one more badge is paid for
SellBadge ==
    /\ badges_sold < MaxSold
    /\ badges_sold' = badges_sold + 1
    /\ read' = NoRead
    /\ UNCHANGED <<pricing, localized_now>>
    /\ UNCHANGED attrVars
    /\ UNCHANGED tokVars

\* ---------------------------------------------------------------------
\* Attribute fallback (uber/config.py, Config.__getattr__)
\* ---------------------------------------------------------------------
\* An attribute name is the sequence of its '_'-separated words:
\* 'BEFORE_EPOCH' is <<"BEFORE", "EPOCH">>, so that split, rsplit, join and
\* concatenation with a suffix are operations on sequences.

\* Python values: a type tag and a number (a date is its day, a string its
\* index, 0 for the empty string); a raised exception carries the name
\* its message gives
IntValue(n) == [t |-> "int", v |-> n, name |-> <<>>]

BoolValue(b) == [t |-> "bool", v |-> IF b THEN 1 ELSE 0, name |-> <<>>]

NoneValue == [t |-> "None", v |-> 0, name |-> <<>>]

Datetime(d) == [t |-> "datetime", v |-> d, name |-> <<>>]

StrValue(k) == [t |-> "str", v |-> k, name |-> <<>>]

Raise(exc, name) == [t |-> exc, v |-> 0, name |-> name]

IsRaise(x) == x.t \in {"AttributeError", "TypeError", "IndexError"}

\* Python truthiness ("not date_setting", "if badge_type")
Truthy(x) ==
    IF x.t = "None" THEN FALSE
    ELSE IF x.t \in {"bool", "int", "str"} THEN x.v /= 0
    ELSE TRUE

\* c.ATTENDEE_BADGE: create_enum_val('attendee_badge')
ATTENDEE_BADGE == 51352218

BadgeTypes == {ATTENDEE_BADGE}

\* str.lower() of one word
LowerWord(w) ==
    CASE w = "ATTENDEE" -> "attendee" [] w = "BADGE" -> "badge"
      [] w = "COUNT" -> "count" [] w = "STOCK" -> "stock"
      [] w = "AVAILABLE" -> "available" [] w = "BEFORE" -> "before"
      [] w = "AFTER" -> "after" [] w = "EPOCH" -> "epoch"
      [] w = "HAS" -> "has" [] w = "ADMIN" -> "admin"
      [] w = "ACCESS" -> "access" [] w = "STRIPE" -> "stripe"
      [] w = "SECRET" -> "secret" [] w = "KEY" -> "key"
      [] w = "SQLALCHEMY" -> "sqlalchemy" [] w = "URL" -> "url"
      [] w = "NOPE" -> "nope" [] w = "SUPPORTER" -> "supporter"
      [] w = "SHIRT" -> "shirt" [] w = "DEADLINE" -> "deadline"
      [] w = "LEVEL" -> "level"
      [] OTHER -> w

\* name.lower()
Lower(name) == [i \in DOMAIN name |-> LowerWord(name[i])]

\* the attributes of the SecretConfig object
_secret == (<<"SQLALCHEMY", "URL">> :> StrValue(1))

\* name.split('_')[0] in ['BEFORE', 'AFTER']
is_before_after(name) == Len(name) >= 1 /\ name[1] \in {"BEFORE", "AFTER"}

\* name.startswith('HAS_') and name.endswith('_ACCESS')
is_has_access(name) ==
    Len(name) >= 2 /\ name[1] = "HAS" /\ name[Len(name)] = "ACCESS"

\* name.endswith('_' + word)
ends_with(name, word) == Len(name) >= 2 /\ name[Len(name)] = word

\* the branch of the if/elif chain that __getattr__(name) takes
getattr_rule(name) ==
    IF is_before_after(name) THEN "BEFORE_AFTER"
    ELSE IF is_has_access(name) THEN "HAS_ACCESS"
    ELSE IF ends_with(name, "COUNT") THEN "COUNT"
    ELSE IF ends_with(name, "AVAILABLE") THEN "AVAILABLE"
    ELSE IF name \in DOMAIN _secret THEN "_secret"
    ELSE IF Lower(name) \in DOMAIN config_secret THEN "config_secret"
    ELSE "AttributeError"

\* get_badge_count_by_type: the completed badges of that type
get_badge_count_by_type(badge_type) ==
    IntValue(IF badge_type.t = "int" /\ badge_type.v \in DOMAIN attendees
        THEN attendees[badge_type.v] ELSE 0)

\* faulty variant: the stock comparison admits count = stock
stock_check_LessOrEqual(stock_setting, count_check) ==
    IF stock_setting = NoneValue THEN BoolValue(TRUE)
    ELSE IF count_check = NoneValue THEN BoolValue(FALSE)
    ELSE IF stock_setting.t \in {"int", "bool"} /\ count_check.t \in {"int", "bool"}
         THEN BoolValue(count_check.v <= stock_setting.v)
         ELSE Raise("TypeError", <<>>)

\* the tests of the _AVAILABLE branch on the stock setting and the count:
\* None stock is unlimited, None count is never available, otherwise
\* int(count_check) < int(stock_setting)
stock_check(stock_setting, count_check) ==
    IF stock_setting = NoneValue THEN BoolValue(TRUE)
    ELSE IF count_check = NoneValue THEN BoolValue(FALSE)
    ELSE IF stock_setting.t \in {"int", "bool"} /\ count_check.t \in {"int", "bool"}
         THEN BoolValue(count_check.v < stock_setting.v)
         ELSE Raise("TypeError", <<>>)

RECURSIVE getattr_c(_)

\* getattr(c, name, default): only an AttributeError gives the default
getattr_default(name, default) ==
    LET x == getattr_c(name)
    IN IF x.t = "AttributeError" THEN default ELSE x

\* faulty variant: the comparisons with the date are not strict
before_after_NotStrict(name) ==
    IF Len(name) < 2
    THEN Raise("IndexError", name)
    ELSE LET date_setting == getattr_c(Tail(name))
         IN IF IsRaise(date_setting) THEN date_setting
            ELSE IF ~Truthy(date_setting) THEN BoolValue(FALSE)
            ELSE IF date_setting.t /= "datetime" THEN Raise("TypeError", name)
            ELSE IF name[1] = "BEFORE"
                 THEN BoolValue(localized_now <= date_setting.v)
                 ELSE BoolValue(localized_now >= date_setting.v)

\* the BEFORE_/AFTER_ branch
before_after(name) ==
    IF Len(name) < 2
    THEN Raise("IndexError", name)          \* name.split('_', 1)[1]
    ELSE LET date_setting == getattr_c(Tail(name))
         IN IF IsRaise(date_setting) THEN date_setting
            ELSE IF ~Truthy(date_setting) THEN BoolValue(FALSE)
            ELSE IF date_setting.t /= "datetime" THEN Raise("TypeError", name)
            ELSE IF name[1] = "BEFORE"
                 THEN BoolValue(localized_now < date_setting.v)
                 ELSE BoolValue(localized_now > date_setting.v)

\* the HAS_..._ACCESS branch
has_access(name) ==
    LET x == getattr_c(SubSeq(name, 2, Len(name) - 1))
    IN IF IsRaise(x) THEN x
       ELSE BoolValue(x.t \in {"int", "bool"} /\ x.v \in ADMIN_ACCESS_SET)

\* the _COUNT branch
item_count(name) ==
    LET item_check == SubSeq(name, 1, Len(name) - 1)
        badge_type == getattr_default(item_check, NoneValue)
    IN IF IsRaise(badge_type) THEN badge_type
       ELSE IF Truthy(badge_type) THEN get_badge_count_by_type(badge_type)
       ELSE NoneValue

\* the _AVAILABLE branch
item_available(name) ==
    LET item_check == SubSeq(name, 1, Len(name) - 1)
        stock_setting == getattr_default(Append(item_check, "STOCK"), NoneValue)
        count_check == getattr_default(Append(item_check, "COUNT"), NoneValue)
    IN IF IsRaise(stock_setting) THEN stock_setting
       ELSE IF stock_setting /= NoneValue /\ IsRaise(count_check) THEN count_check
       ELSE stock_check(stock_setting, count_check)

\* Config.__getattr__(name)
__getattr__(name) ==
    LET rule == getattr_rule(name)
    IN CASE rule = "BEFORE_AFTER" -> before_after(name)
         [] rule = "HAS_ACCESS" -> has_access(name)
         [] rule = "COUNT" -> item_count(name)
         [] rule = "AVAILABLE" -> item_available(name)
         [] rule = "_secret" -> _secret[name]
         [] rule = "config_secret" -> config_secret[Lower(name)]
         [] OTHER -> Raise("AttributeError", name)

\* c.<name>: the attribute if it is defined, else the fallback
getattr_c(name) ==
    IF name \in DOMAIN attrs THEN attrs[name] ELSE __getattr__(name)

\* the names requests read
ReadNames ==
    {<<"EPOCH">>, <<"BEFORE", "EPOCH">>, <<"AFTER", "EPOCH">>,
     <<"BEFORE">>, <<"AFTER">>,
     <<"ADMIN">>, <<"HAS", "ADMIN", "ACCESS">>, <<"HAS", "ACCESS">>,
     <<"HAS", "NOPE", "ACCESS">>,
     <<"ATTENDEE", "BADGE">>, <<"ATTENDEE", "BADGE", "STOCK">>,
     <<"ATTENDEE", "BADGE", "COUNT">>, <<"ATTENDEE", "BADGE", "AVAILABLE">>,
     <<"NOPE", "COUNT">>, <<"NOPE", "AVAILABLE">>,
     <<"BEFORE", "ATTENDEE", "BADGE", "AVAILABLE">>,
     <<"AFTER", "ATTENDEE", "BADGE", "COUNT">>,
     <<"HAS", "ATTENDEE", "BADGE", "COUNT">>,
     <<"SQLALCHEMY", "URL">>, <<"STRIPE", "SECRET", "KEY">>,
     <<"COUNT">>, <<"AVAILABLE">>, <<"NOPE">>}

\* a request reads c.<name>
ReadAttr(name) ==
    /\ read' = [NoRead EXCEPT !.kind = "attr", !.name = name,
                   !.rule = IF name \in DOMAIN attrs THEN "defined"
                            ELSE getattr_rule(name),
                   !.result = getattr_c(name)]
    /\ UNCHANGED <<pricing, localized_now, badges_sold>>
    /\ UNCHANGED attrVars
    /\ UNCHANGED tokVars

\* the request is over and one more badge of the type is completed
CompleteBadge(badge_type) ==
    /\ attendees[badge_type] < MaxCount
    /\ attendees' = [attendees EXCEPT ![badge_type] = @ + 1]
    /\ read' = NoRead
    /\ UNCHANGED <<pricing, localized_now, badges_sold>>
    /\ UNCHANGED <<attrs, config_secret, ADMIN_ACCESS_SET, storeVars>>
    /\ UNCHANGED tokVars

\* ---------------------------------------------------------------------
\* Startup: make_dates and create_enum_val
\* ---------------------------------------------------------------------
\* str.upper() of one word
UpperWord(w) ==
    CASE w = "epoch" -> "EPOCH" [] w = "eschaton" -> "ESCHATON"
      [] w = "stripe" -> "STRIPE" [] w = "Stripe" -> "STRIPE"
      [] w = "attendee" -> "ATTENDEE" [] w = "badge" -> "BADGE"
      [] w = "Friday" -> "FRIDAY" [] w = "Saturday" -> "SATURDAY"
      [] w = "Sunday" -> "SUNDAY"
      [] OTHER -> w

\* name.upper()
Upper(name) == [i \in DOMAIN name |-> UpperWord(name[i])]

\* setattr(self, name, value) and d[key] = value
setattr(obj, name, value) ==
    [n \in DOMAIN obj \cup {name} |-> IF n = name THEN value ELSE obj[n]]

\* a [dates] value is a string, held as its parts between the spaces: the
\* "%Y-%m-%d" text of a day, the text of an hour, the text "HH:MM"
DatePart(d) == [k |-> "date", n |-> d]

HourPart(h) == [k |-> "hour", n |-> h]

TimePart(h, m) == [k |-> "time", n |-> h * 100 + m]

\* the hour texts of the [dates] values; "24" is no hour of a day
Hours == {10, 24}

\* the option names of the [dates] section
DateOptions == {<<"epoch">>, <<"eschaton">>}

\* the days the [dates] values name
ConfigDays == {1, 2}

\* the values of the [dates] section
DateValues ==
    {<<>>} \cup {<<DatePart(d)>> : d \in ConfigDays}
           \cup {<<DatePart(d), HourPart(h)>> : d \in ConfigDays, h \in Hours}

\* the [dates] sections: each option at most once, epoch before eschaton
\* as in the configspec
DateSections ==
    LET Items == [opt : DateOptions, val : DateValues]
    IN {<<>>} \cup {<<i>> : i \in Items}
              \cup {s \in Items \X Items :
                       s[1].opt = <<"epoch">> /\ s[2].opt = <<"eschaton">>}

\* the pytz time zones EVENT_TIMEZONE may name
TimeZones == {<<"US", "Eastern">>, <<"UTC">>}

tzinfo(zone) == [t |-> "tzinfo", v |-> 1, name |-> zone]

\* datetime(year-month-day, hour, minute) without tzinfo, in minutes
datetime(date, hour, minute) == (date * 24 + hour) * 60 + minute

\* datetime.strptime(date_string, format): None stands for ValueError
strptime(date_string, format) ==
    IF Len(date_string) /= 2 \/ date_string[1].k /= "date" THEN None
    ELSE IF format = "%Y-%m-%d %H"
    THEN IF date_string[2].k = "hour" /\ date_string[2].n \in 0..23
         THEN Some(datetime(date_string[1].n, date_string[2].n, 0))
         ELSE None
    ELSE IF date_string[2].k = "time"
              /\ date_string[2].n \div 100 \in 0..23
              /\ date_string[2].n % 100 \in 0..59
         THEN Some(datetime(date_string[1].n,
                            date_string[2].n \div 100, date_string[2].n % 100))
         ELSE None

\* tz.localize(naive): the same wall-clock time, carrying the zone
localize(tz, naive) == [t |-> "datetime", v |-> naive, name |-> tz.name]

\* faulty variant: a date-only value is taken as midnight
parse_date_Midnight(_val, tz) ==
    IF _val = <<>> THEN NoneValue
    ELSE LET parsed ==
               IF Len(_val) > 1
               THEN strptime(_val, "%Y-%m-%d %H")
               ELSE strptime(_val \o <<TimePart(0, 0)>>, "%Y-%m-%d %H:%M")
         IN IF parsed = None THEN Raise("ValueError", <<>>)
            ELSE localize(tz, parsed[1])

\* the three branches of make_dates for one value
parse_date(_val, tz) ==
    IF _val = <<>> THEN NoneValue
    ELSE LET parsed ==
               IF Len(_val) > 1
               THEN strptime(_val, "%Y-%m-%d %H")
               ELSE strptime(_val \o <<TimePart(23, 59)>>, "%Y-%m-%d %H:%M")
         IN IF parsed = None THEN Raise("ValueError", <<>>)
            ELSE localize(tz, parsed[1])

RECURSIVE make_dates_loop(_, _, _)

\* the loop of make_dates over the items still to do; a ValueError leaves
\* the loop with what the earlier items have set
make_dates_loop(items, obj, dates) ==
    IF items = <<>>
    THEN [attrs |-> obj, DATES |-> dates, result |-> NoneValue]
    ELSE LET _opt == items[1].opt
             _dt == parse_date(items[1].val, obj[<<"EVENT", "TIMEZONE">>])
         IN IF _dt.t = "ValueError"
            THEN [attrs |-> obj, DATES |-> dates, result |-> _dt]
            ELSE make_dates_loop(Tail(items),
                    setattr(obj, Upper(_opt), _dt),
                    IF Truthy(_dt) THEN setattr(dates, Upper(_opt), _dt)
                    ELSE dates)

\* c.make_dates(config_section)
make_dates(config_section) ==
    LET done == make_dates_loop(config_section, attrs, DATES)
    IN /\ attrs' = done.attrs
       /\ DATES' = done.DATES
    /\ UNCHANGED <<threadlocal, request_reads, BADGE_TYPE_PRICES,
                    DONATION_TIER_DESCRIPTIONS, REQUIRED_ACCESS>>
       /\ read' = [NoRead EXCEPT !.kind = "make_dates", !.arg = config_section,
                                 !.result = done.result]
       /\ UNCHANGED <<pricing, localized_now, badges_sold>>
       /\ UNCHANGED <<config_secret, ADMIN_ACCESS_SET, attendees>>
       /\ UNCHANGED tokVars

\* the names handed to create_enum_val
EnumNames == {<<"stripe">>, <<"Stripe">>, <<"STRIPE">>, <<"attendee", "badge">>}

\* int(sha512(text.encode()).hexdigest()[:7], 16) of the names in use
sha512_int(text) ==
    CASE text = <<"STRIPE">> -> 180350097
      [] text = <<"stripe">> -> 99187626
      [] text = <<"Stripe">> -> 142710951
      [] text = <<"ATTENDEE", "BADGE">> -> ATTENDEE_BADGE
      [] text = <<"attendee", "badge">> -> 100198835
      [] text = <<"ONE", "DAY", "BADGE">> -> 71138939
      [] text = <<"FRIDAY">> -> 84680830
      [] text = <<"SATURDAY">> -> 62603428
      [] text = <<"SUNDAY">> -> 166955552

\* faulty variant: the name is hashed as given
enum_val_AsGiven(name) == sha512_int(name)

\* val of create_enum_val
enum_val(name) == sha512_int(Upper(name))

\* c.create_enum_val(name)
create_enum_val(name) ==
    /\ attrs' = setattr(attrs, Upper(name), IntValue(enum_val(name)))
    /\ read' = [NoRead EXCEPT !.kind = "create_enum_val", !.arg = name,
                                 !.result = IntValue(enum_val(name))]
    /\ UNCHANGED <<pricing, localized_now, badges_sold>>
    /\ UNCHANGED <<config_secret, ADMIN_ACCESS_SET, attendees, storeVars>>
    /\ UNCHANGED tokVars

\* ---------------------------------------------------------------------
\* Reads of c within one request (request_cached_property, @property)
\* ---------------------------------------------------------------------
\* the names a request handler reads
RequestNames == {<<"BADGES", "SOLD">>, <<"BADGE", "PRICE">>,
                 <<"BEFORE", "EPOCH">>, <<"AFTER", "EPOCH">>}

\* @request_cached_property: the value computed by the first read of a
\* request is kept in the request's cache and returned by the later reads
request_cached_property(cache, name, computed) ==
    IF name \in DOMAIN cache THEN cache[name] ELSE computed

\* faulty variant: every read runs the query
BADGES_SOLD_Uncached(cache) == IntValue(badges_sold)

\* c.BADGES_SOLD
BADGES_SOLD(cache) ==
    request_cached_property(cache, <<"BADGES", "SOLD">>, IntValue(badges_sold))

\* whether get_attendee_price() gets to its read of self.BADGES_SOLD
reads_BADGES_SOLD(cfg, now) ==
    cfg.PRICE_BUMPS_ENABLED /\ ~cfg.HARDCORE_OPTIMIZATIONS_ENABLED
        /\ now < cfg.EPOCH

\* the properties a read of c.<name> evaluates
evaluated(name) ==
    IF name = <<"BADGE", "PRICE">> /\ reads_BADGES_SOLD(pricing, localized_now)
    THEN {name, <<"BADGES", "SOLD">>}
    ELSE {name}

\* what the read of c.<name> returns
request_value(name, cache) ==
    IF name = <<"BADGES", "SOLD">> THEN BADGES_SOLD(cache)
    ELSE IF name = <<"BADGE", "PRICE">>
    THEN IntValue(get_attendee_price(pricing, None, localized_now,
                                     BADGES_SOLD(cache).v))
    ELSE getattr_c(name)

\* the first read of c.<name> in a request: the result, the clock at the
\* time, and for BADGES_SOLD what the database held at the time
first_read(name, cache) ==
    [first |-> request_value(name, cache), last |-> request_value(name, cache),
     now |-> localized_now,
     sold |-> IF name = <<"BADGES", "SOLD">> THEN badges_sold ELSE 0]

\* the handler of the current request reads c.<name>
RequestRead(name) ==
    /\ threadlocal' =
          IF <<"BADGES", "SOLD">> \in evaluated(name)
          THEN setattr(threadlocal, <<"BADGES", "SOLD">>, BADGES_SOLD(threadlocal))
          ELSE threadlocal
    /\ request_reads' =
          [n \in DOMAIN request_reads \cup evaluated(name) |->
              IF n \notin evaluated(name) THEN request_reads[n]
              ELSE IF n \in DOMAIN request_reads
              THEN [request_reads[n] EXCEPT
                       !.last = request_value(n, threadlocal)]
              ELSE first_read(n, threadlocal)]
    /\ UNCHANGED <<pricing, localized_now, badges_sold, read, DATES,
                    DONATION_TIER_DESCRIPTIONS, REQUIRED_ACCESS,
                    BADGE_TYPE_PRICES>>
    /\ UNCHANGED <<attrs, config_secret, ADMIN_ACCESS_SET, attendees>>
    /\ UNCHANGED tokVars

\* the clock moves on while the request is being handled
ClockAdvances ==
    /\ localized_now < MaxDay
    /\ localized_now' = localized_now + 1
    /\ UNCHANGED <<pricing, badges_sold, read>>
    /\ UNCHANGED attrVars
    /\ UNCHANGED tokVars

\* another request's payment is committed while this one is being handled
BadgePaidMeanwhile ==
    /\ badges_sold < MaxSold
    /\ badges_sold' = badges_sold + 1
    /\ UNCHANGED <<pricing, localized_now, read>>
    /\ UNCHANGED attrVars
    /\ UNCHANGED tokVars

\* the request is over: its cache goes with it
EndRequest ==
    /\ request_reads /= EmptyDict
    /\ threadlocal' = EmptyDict
    /\ request_reads' = EmptyDict
    /\ UNCHANGED <<pricing, localized_now, badges_sold, read, DATES,
                    DONATION_TIER_DESCRIPTIONS, REQUIRED_ACCESS,
                    BADGE_TYPE_PRICES>>
    /\ UNCHANGED <<attrs, config_secret, ADMIN_ACCESS_SET, attendees>>
    /\ UNCHANGED tokVars

\* ---------------------------------------------------------------------
\* Stored settings that reads work on: DONATION_TIER_DESCRIPTIONS and
\* REQUIRED_ACCESS
\* ---------------------------------------------------------------------
\* c.SHIRT_LEVEL and c.SUPPORTER_LEVEL, the prices of two donation tiers
SHIRT_LEVEL == 20

SUPPORTER_LEVEL == 60

\* [donation_tier_descriptions] after startup: every tier with its price;
\* 'description' is held as its '|'-separated items, each standing for the
\* description text and the link zipped with it; no tier has the key
\* 'all_descriptions' yet
StartupTiers ==
    [tier \in {"no_thanks", "shirt", "supporter"} |->
        [price |-> CASE tier = "no_thanks" -> 0
                     [] tier = "shirt" -> SHIRT_LEVEL
                     [] tier = "supporter" -> SUPPORTER_LEVEL,
         description |-> CASE tier = "no_thanks" -> <<"No thanks">>
                           [] tier = "shirt" -> <<"T-shirt">>
                           [] tier = "supporter" -> <<"Swag", "Ribbon">>,
         all_descriptions |-> None]]

\* the keys of the tiers that can be bought now
donation_list(tiers) ==
    IF Truthy(getattr_c(<<"BEFORE", "SUPPORTER", "DEADLINE">>))
          /\ Truthy(getattr_c(<<"SUPPORTER", "AVAILABLE">>))
    THEN DOMAIN tiers
    ELSE IF Truthy(getattr_c(<<"BEFORE", "SHIRT", "DEADLINE">>))
              /\ Truthy(getattr_c(<<"SHIRT", "AVAILABLE">>))
    THEN {t \in DOMAIN tiers :
             tiers[t].price < getattr_c(<<"SUPPORTER", "LEVEL">>).v}
    ELSE {t \in DOMAIN tiers :
             tiers[t].price < getattr_c(<<"SHIRT", "LEVEL">>).v}

RECURSIVE sorted_by_price(_, _)

\* sorted(donation_list, key=price)
sorted_by_price(keys, tiers) ==
    IF keys = {} THEN <<>>
    ELSE LET least == CHOOSE t \in keys :
                         \A u \in keys : tiers[t].price <= tiers[u].price
         IN <<least>> \o sorted_by_price(keys \ {least}, tiers)

RECURSIVE lower_descriptions(_, _, _)

\* the descriptions of the listed tiers priced above 0 and below price
lower_descriptions(listed, tiers, price) ==
    IF listed = <<>> THEN <<>>
    ELSE (IF tiers[listed[1]].price > 0 /\ tiers[listed[1]].price < price
          THEN tiers[listed[1]].description ELSE <<>>)
         \o lower_descriptions(Tail(listed), tiers, price)

\* the tier dicts after the loop has set entry[1]['all_descriptions']
with_all_descriptions(listed, tiers) ==
    [t \in DOMAIN tiers |->
        IF t \in {listed[i] : i \in DOMAIN listed}
        THEN [tiers[t] EXCEPT !.all_descriptions =
                 Some(lower_descriptions(listed, tiers, tiers[t].price)
                      \o tiers[t].description)]
        ELSE tiers[t]]

\* a request reads c.PREREG_DONATION_DESCRIPTIONS: the entries of the list
\* are the stored tier dicts themselves, so the loop writes into them
PREREG_DONATION_DESCRIPTIONS ==
    LET listed == sorted_by_price(donation_list(DONATION_TIER_DESCRIPTIONS),
                                  DONATION_TIER_DESCRIPTIONS)
        written == with_all_descriptions(listed, DONATION_TIER_DESCRIPTIONS)
    IN /\ DONATION_TIER_DESCRIPTIONS' = written
       /\ read' = [NoRead EXCEPT !.kind = "PREREG_DONATION_DESCRIPTIONS",
                      !.result = [i \in DOMAIN listed |-> written[listed[i]]]]
       /\ UNCHANGED <<pricing, localized_now, badges_sold>>
       /\ UNCHANGED <<attrs, config_secret, ADMIN_ACCESS_SET, attendees>>
       /\ UNCHANGED <<DATES, threadlocal, request_reads, REQUIRED_ACCESS,
                       BADGE_TYPE_PRICES>>
       /\ UNCHANGED tokVars

\* the access levels of the [enums][access] section
AccessLevels == {ADMIN, API_READ}

\* _default_access, from the __DEFAULT__ option of [required_access]
_default_access == {ADMIN}

\* the default_factory of c.REQUIRED_ACCESS
default_factory(a) == {a} \cup _default_access

\* a request looks up c.REQUIRED_ACCESS[a]; keydefaultdict.__missing__
\* stores the default it returns
REQUIRED_ACCESS_getitem(a) ==
    /\ REQUIRED_ACCESS' =
          IF a \in DOMAIN REQUIRED_ACCESS THEN REQUIRED_ACCESS
          ELSE setattr(REQUIRED_ACCESS, a, default_factory(a))
    /\ read' = [NoRead EXCEPT !.kind = "REQUIRED_ACCESS", !.arg = <<a>>,
                   !.result = IF a \in DOMAIN REQUIRED_ACCESS
                              THEN REQUIRED_ACCESS[a] ELSE default_factory(a)]
    /\ UNCHANGED <<pricing, localized_now, badges_sold>>
    /\ UNCHANGED <<attrs, config_secret, ADMIN_ACCESS_SET, attendees>>
    /\ UNCHANGED <<DATES, threadlocal, request_reads,
                    DONATION_TIER_DESCRIPTIONS, BADGE_TYPE_PRICES>>
    /\ UNCHANGED tokVars

\* ---------------------------------------------------------------------
\* AT_THE_DOOR_BADGE_OPTS
\* ---------------------------------------------------------------------
\* the badge types [badge_type_prices] may price
PricedBadgeTypes ==
    {ATTENDEE_BADGE, sha512_int(<<"ONE", "DAY", "BADGE">>), sha512_int(<<"FRIDAY">>)}

\* c.BADGES[badge_type], the name of a badge type
BADGES(badge_type) ==
    CASE badge_type = ATTENDEE_BADGE -> "Attendee"
      [] badge_type = sha512_int(<<"ONE", "DAY", "BADGE">>) -> "One Day"
      [] badge_type = sha512_int(<<"FRIDAY">>) -> "Friday"
      [] badge_type = sha512_int(<<"SATURDAY">>) -> "Saturday"
      [] badge_type = sha512_int(<<"SUNDAY">>) -> "Sunday"

\* day.strftime('%A'); day 1 is a Friday
strftime_A(day) ==
    CASE day % 7 = 1 -> "Friday" [] day % 7 = 2 -> "Saturday"
      [] day % 7 = 3 -> "Sunday" [] day % 7 = 4 -> "Monday"
      [] day % 7 = 5 -> "Tuesday" [] day % 7 = 6 -> "Wednesday"
      [] day % 7 = 0 -> "Thursday"

\* an entry of opts: the tuple (badge_type, '<label> ($<price>)')
badge_opt(badge_type, label, price) ==
    [badge_type |-> badge_type, label |-> label, price |-> price]

\* tuple == int in Python: a tuple never equals an int
tuple_eq_int(entry, badge_type) == FALSE

\* "badge_type not in opts": opts holds tuples, badge_type is an int
not_in(badge_type, opts) ==
    \A i \in DOMAIN opts : ~tuple_eq_int(opts[i], badge_type)

RECURSIVE priced_opts(_, _)

\* the loop over BADGE_TYPE_PRICES, appending to opts
priced_opts(badge_types, opts) ==
    IF badge_types = <<>> THEN opts
    ELSE priced_opts(Tail(badge_types),
            IF not_in(badge_types[1], opts)
            THEN Append(opts, badge_opt(badge_types[1], BADGES(badge_types[1]),
                                  BADGE_TYPE_PRICES[badge_types[1]]))
            ELSE opts)

\* c.DEFAULT_SINGLE_DAY, the price of a day without one of its own
DEFAULT_SINGLE_DAY == 30

RECURSIVE presold_day_opts(_, _)

\* the while loop over the days from day to ESCHATON
presold_day_opts(day, eschaton) ==
    IF day > eschaton THEN <<>>
    ELSE LET day_name == strftime_A(day)
             badge == getattr_c(<<UpperWord(day_name)>>)
         IN (IF Truthy(getattr_default(<<UpperWord(day_name), "AVAILABLE">>,
                                       NoneValue))
             THEN <<badge_opt(badge.v, day_name \o " Pass", DEFAULT_SINGLE_DAY)>>
             ELSE <<>>)
            \o presold_day_opts(day + 1, eschaton)

\* the value of c.AT_THE_DOOR_BADGE_OPTS
door_badge_opts ==
    LET attendee ==
          IF Truthy(getattr_c(<<"ATTENDEE", "BADGE", "AVAILABLE">>))
          THEN <<badge_opt(getattr_c(<<"ATTENDEE", "BADGE">>).v, "Full Weekend Pass",
                     get_attendee_price(pricing, None, localized_now, badges_sold))>>
          ELSE <<>>
        priced == priced_opts(sorted_keys(DOMAIN BADGE_TYPE_PRICES), attendee)
    IN IF Truthy(getattr_c(<<"ONE", "DAYS", "ENABLED">>))
       THEN IF Truthy(getattr_c(<<"PRESELL", "ONE", "DAYS">>))
            THEN priced \o presold_day_opts(
                              Max({localized_now, getattr_c(<<"EPOCH">>).v}),
                              getattr_c(<<"ESCHATON">>).v)
            ELSE IF Truthy(getattr_c(<<"ONE", "DAY", "BADGE", "AVAILABLE">>))
            THEN Append(priced, badge_opt(getattr_c(<<"ONE", "DAY", "BADGE">>).v,
                                    "Single Day Pass", DEFAULT_SINGLE_DAY))
            ELSE priced
       ELSE priced

\* a request reads c.AT_THE_DOOR_BADGE_OPTS
AT_THE_DOOR_BADGE_OPTS ==
    /\ read' = [NoRead EXCEPT !.kind = "AT_THE_DOOR_BADGE_OPTS",
                              !.result = door_badge_opts]
    /\ UNCHANGED <<pricing, localized_now, badges_sold>>
    /\ UNCHANGED attrVars
    /\ UNCHANGED tokVars

\* ---------------------------------------------------------------------
\* Specifications
\* ---------------------------------------------------------------------
\* the settings the startup code and the computed properties work on
StoreIdle ==
    /\ DATES = EmptyDict
    /\ threadlocal = EmptyDict
    /\ request_reads = EmptyDict
    /\ DONATION_TIER_DESCRIPTIONS = EmptyDict
    /\ REQUIRED_ACCESS = EmptyDict
    /\ BADGE_TYPE_PRICES = EmptyDict

\* no attribute is read through the fallback chain
AttrIdle ==
    /\ StoreIdle
    /\ attrs = EmptyDict
    /\ config_secret = EmptyDict
    /\ ADMIN_ACCESS_SET = {}
    /\ attendees = [b \in BadgeTypes |-> 0]

\* the configuration object plays no part in the token controller
CfgIdle ==
    /\ pricing = NoPricing
    /\ localized_now = 0
    /\ badges_sold = 0
    /\ read = NoRead
    /\ AttrIdle

Init ==
    /\ api_tokens = NoTokens
    /\ utcnow = 0
    \* acct2 holds API access only; acct1 may hold ADMIN as well
    /\ \E acct1_access \in {{ADMIN, API_READ}, {API_READ}} :
          access_ints = [a \in Accounts |->
                            IF a = "acct1" THEN acct1_access ELSE {API_READ}]
    /\ request = NoRequest
    /\ response = NoResponse
    /\ CfgIdle

Next ==
    \/ \E a \in Accounts, s \in BOOLEAN : index(a, s)
    \/ \E m \in Methods, a \in Accounts, p \in ParamSets : create_api_token(m, a, p)
    \/ \E m \in Methods, a \in Accounts, i \in IdArgs : revoke_api_token(m, a, i)
    \/ Tick

Spec == Init /\ [][Next]_vars

TokIdle ==
    /\ api_tokens = NoTokens
    /\ utcnow = 0
    /\ access_ints = [a \in Accounts |-> {API_READ}]
    /\ request = NoRequest
    /\ response = NoResponse

InitPrice ==
    /\ pricing \in [INITIAL_ATTENDEE : Prices,
                    PRICE_BUMPS_ENABLED : BOOLEAN,
                    PRICE_BUMPS : Dicts(BumpDays, Prices),
                    PRICE_LIMITS : Dicts(BadgeCaps, Prices),
                    HARDCORE_OPTIMIZATIONS_ENABLED : BOOLEAN,
                    EPOCH : EpochDays]
    /\ localized_now = 0
    /\ badges_sold = 0
    /\ read = NoRead
    /\ AttrIdle
    /\ TokIdle

NextPrice ==
    \/ BADGE_PRICE
    \/ \E dt \in 0..MaxDay : PriceAt(dt)
    \/ NextDay
    \/ SellBadge

SpecPrice == InitPrice /\ [][NextPrice]_vars

\* the settings c holds after startup: EPOCH from [dates] (None when the
\* option is empty), the enum values, and a stock for the attendee badge
\* when [badge_prices][stocks] configures one
StartupAttrs(epoch, badge, stock) ==
    LET names == {<<"EPOCH">>, <<"ADMIN">>}
                    \cup (IF badge THEN {<<"ATTENDEE", "BADGE">>} ELSE {})
                    \cup (IF stock /= None
                          THEN {<<"ATTENDEE", "BADGE", "STOCK">>} ELSE {})
    IN [n \in names |->
          IF n = <<"EPOCH">> THEN epoch
          ELSE IF n = <<"ADMIN">> THEN IntValue(ADMIN)
          ELSE IF n = <<"ATTENDEE", "BADGE">> THEN IntValue(ATTENDEE_BADGE)
          ELSE IntValue(stock[1])]

\* the option names the [secret] section may hold
SecretOptions == {<<"stripe", "secret", "key">>, <<"attendee", "badge", "count">>}

InitAttr ==
    /\ \E epoch \in {NoneValue, Datetime(1)}, badge \in BOOLEAN,
          stock \in {None} \cup {Some(n) : n \in 0..MaxStock} :
          attrs = StartupAttrs(epoch, badge, stock)
    /\ \E S \in SUBSET SecretOptions : config_secret = [o \in S |-> StrValue(2)]
    /\ ADMIN_ACCESS_SET \in {{}, {ADMIN}}
    /\ attendees = [b \in BadgeTypes |-> 0]
    /\ StoreIdle
    /\ pricing = NoPricing
    /\ localized_now = 0
    /\ badges_sold = 0
    /\ read = NoRead
    /\ TokIdle

NextAttr ==
    \/ \E name \in ReadNames : ReadAttr(name)
    \/ \E b \in BadgeTypes : CompleteBadge(b)
    \/ NextDay

SpecAttr == InitAttr /\ [][NextAttr]_vars

\* startup before make_dates: c.DATES = {} and EVENT_TIMEZONE a pytz zone
InitStartup ==
    /\ \E zone \in TimeZones :
          attrs = (<<"EVENT", "TIMEZONE">> :> tzinfo(zone))
    /\ DATES = EmptyDict
    /\ threadlocal = EmptyDict
    /\ request_reads = EmptyDict
    /\ DONATION_TIER_DESCRIPTIONS = EmptyDict
    /\ REQUIRED_ACCESS = EmptyDict
    /\ BADGE_TYPE_PRICES = EmptyDict
    /\ config_secret = EmptyDict
    /\ ADMIN_ACCESS_SET = {}
    /\ attendees = [b \in BadgeTypes |-> 0]
    /\ pricing = NoPricing
    /\ localized_now = 0
    /\ badges_sold = 0
    /\ read = NoRead
    /\ TokIdle

NextStartup ==
    \/ \E config_section \in DateSections : make_dates(config_section)
    \/ \E name \in EnumNames : create_enum_val(name)

SpecStartup == InitStartup /\ [][NextStartup]_vars

\* a running server: bumps and limits as PRICE_BUMPS / PRICE_LIMITS hold
\* them after startup, EPOCH both as the setting the price code reads and
\* as the attribute the BEFORE_/AFTER_ fallback reads
InitRequest ==
    /\ \E bumps \in {(1 :> 50)}, limits \in {EmptyDict, (1 :> 60)},
          epoch \in EpochDays :
          /\ pricing = [INITIAL_ATTENDEE |-> 40, PRICE_BUMPS_ENABLED |-> TRUE,
                        PRICE_BUMPS |-> bumps, PRICE_LIMITS |-> limits,
                        HARDCORE_OPTIMIZATIONS_ENABLED |-> FALSE,
                        EPOCH |-> epoch]
          /\ attrs = (<<"EPOCH">> :> Datetime(epoch))
    /\ config_secret = EmptyDict
    /\ ADMIN_ACCESS_SET = {}
    /\ attendees = [b \in BadgeTypes |-> 0]
    /\ StoreIdle
    /\ localized_now = 0
    /\ badges_sold = 0
    /\ read = NoRead
    /\ TokIdle

NextRequest ==
    \/ \E name \in RequestNames : RequestRead(name)
    \/ ClockAdvances
    \/ BadgePaidMeanwhile
    \/ EndRequest

SpecRequest == InitRequest /\ [][NextRequest]_vars

\* a running server with the donation tiers and the access table startup
\* has built; [required_access] may or may not list API_READ
InitSettings ==
    /\ attrs = [n \in {<<"SUPPORTER", "DEADLINE">>, <<"SHIRT", "DEADLINE">>,
                       <<"SUPPORTER", "LEVEL">>, <<"SHIRT", "LEVEL">>} |->
                  CASE n = <<"SUPPORTER", "DEADLINE">> -> Datetime(1)
                    [] n = <<"SHIRT", "DEADLINE">> -> Datetime(2)
                    [] n = <<"SUPPORTER", "LEVEL">> -> IntValue(SUPPORTER_LEVEL)
                    [] n = <<"SHIRT", "LEVEL">> -> IntValue(SHIRT_LEVEL)]
    /\ DONATION_TIER_DESCRIPTIONS = StartupTiers
    /\ REQUIRED_ACCESS \in {EmptyDict, (API_READ :> {ADMIN})}
    /\ BADGE_TYPE_PRICES = EmptyDict
    /\ DATES = EmptyDict
    /\ threadlocal = EmptyDict
    /\ request_reads = EmptyDict
    /\ config_secret = EmptyDict
    /\ ADMIN_ACCESS_SET \in {{}, {ADMIN}}
    /\ attendees = [b \in BadgeTypes |-> 0]
    /\ pricing = NoPricing
    /\ localized_now = 0
    /\ badges_sold = 0
    /\ read = NoRead
    /\ TokIdle

\* the attributes the requests read besides
SettingsReadNames ==
    {<<"BEFORE", "SUPPORTER", "DEADLINE">>, <<"SUPPORTER", "AVAILABLE">>,
     <<"SHIRT", "LEVEL">>, <<"HAS", "ADMIN", "ACCESS">>, <<"NOPE">>}

NextSettings ==
    \/ PREREG_DONATION_DESCRIPTIONS
    \/ \E a \in AccessLevels : REQUIRED_ACCESS_getitem(a)
    \/ \E name \in SettingsReadNames : ReadAttr(name)
    \/ NextDay

SpecSettings == InitSettings /\ [][NextSettings]_vars

\* a running server: the enum values of the badge types, the event days
\* Friday to Saturday, the one-day settings, a stock for the attendee badge
\* when one is configured, and the prices of [badge_type_prices]
DoorAttrs(stock, one_days, presell) ==
    LET fixed == (<<"ATTENDEE", "BADGE">> :> IntValue(ATTENDEE_BADGE))
              @@ (<<"ONE", "DAY", "BADGE">> :>
                      IntValue(sha512_int(<<"ONE", "DAY", "BADGE">>)))
              @@ (<<"FRIDAY">> :> IntValue(sha512_int(<<"FRIDAY">>)))
              @@ (<<"SATURDAY">> :> IntValue(sha512_int(<<"SATURDAY">>)))
              @@ (<<"SUNDAY">> :> IntValue(sha512_int(<<"SUNDAY">>)))
              @@ (<<"EPOCH">> :> Datetime(1))
              @@ (<<"ESCHATON">> :> Datetime(2))
              @@ (<<"ONE", "DAYS", "ENABLED">> :> BoolValue(one_days))
              @@ (<<"PRESELL", "ONE", "DAYS">> :> BoolValue(presell))
    IN IF stock = None THEN fixed
       ELSE fixed @@ (<<"ATTENDEE", "BADGE", "STOCK">> :> IntValue(stock[1]))

InitDoor ==
    /\ \E stock \in {None} \cup {Some(n) : n \in 0..MaxStock},
          one_days \in BOOLEAN, presell \in BOOLEAN :
          attrs = DoorAttrs(stock, one_days, presell)
    /\ BADGE_TYPE_PRICES \in Dicts(PricedBadgeTypes, {50})
    /\ DATES = EmptyDict
    /\ threadlocal = EmptyDict
    /\ request_reads = EmptyDict
    /\ DONATION_TIER_DESCRIPTIONS = EmptyDict
    /\ REQUIRED_ACCESS = EmptyDict
    /\ config_secret = EmptyDict
    /\ ADMIN_ACCESS_SET = {}
    /\ attendees = [b \in BadgeTypes |-> 0]
    /\ pricing = NoPricing
    /\ localized_now = 0
    /\ badges_sold = 0
    /\ read = NoRead
    /\ TokIdle

NextDoor ==
    \/ AT_THE_DOOR_BADGE_OPTS
    \/ \E b \in BadgeTypes : CompleteBadge(b)
    \/ NextDay

SpecDoor == InitDoor /\ [][NextDoor]_vars

\* ---------------------------------------------------------------------
\* Properties of the API token controller
\* ---------------------------------------------------------------------
Range(s) == {s[i] : i \in DOMAIN s}

IsRevoked(i) == api_tokens[i].revoked_time /= None

\* the caller of the latest request may see token i (own token, or ADMIN)
VisibleToCaller(i) ==
    \/ ADMIN \in access_ints[request.account_id]
    \/ api_tokens[i].admin_account_id = request.account_id

\* the latest call was a revoke that passed the guard and found its token
RevokeApplied ==
    /\ request.op = "revoke_api_token"
    /\ request.method = "POST"
    /\ ~Falsy(request.id)
    /\ request.id[1] \in DOMAIN api_tokens

\* this step is a call of handler op
Called(op) == request'.op = op

\* C1 as stated: after revoke_api_token (POST, existing id) the token has a
\* non-null revoked_time, every index listing with show_revoked false omits
\* every revoked token, and every index listing with show_revoked true
\* contains every revoked token.
C1_AsStated ==
    /\ RevokeApplied => IsRevoked(request.id[1])
    /\ response.kind = "page" =>
          \A i \in DOMAIN api_tokens :
              IsRevoked(i) => (i \in Range(response.api_tokens) <=> request.show_revoked)

C1_State ==
    /\ RevokeApplied => IsRevoked(request.id[1])
    /\ response.kind = "page" =>
          \A i \in DOMAIN api_tokens :
              IsRevoked(i) =>
                 /\ ~request.show_revoked => i \notin Range(response.api_tokens)
                 /\ (request.show_revoked /\ VisibleToCaller(i))
                       => i \in Range(response.api_tokens)

\* C1 amended: after revoke_api_token (POST, existing id) the token has a
\* non-null revoked_time and keeps one in every later state; every index
\* listing with show_revoked false omits it, and an index listing with
\* show_revoked true contains it when the caller holds ADMIN or owns it.
C1_Amended ==
    /\ []C1_State
    /\ [][\A i \in DOMAIN api_tokens :
             IsRevoked(i) => (i \in DOMAIN api_tokens' /\ api_tokens'[i].revoked_time /= None)]_vars

\* a default listing that omits a revoked token its caller could see
C1_Witness ==
    /\ response.kind = "page"
    /\ ~request.show_revoked
    /\ \E i \in DOMAIN api_tokens :
          IsRevoked(i) /\ VisibleToCaller(i) /\ i \notin Range(response.api_tokens)

\* C2: a POST create_api_token whose fields fail validation leaves the
\* token table exactly as it was and returns an 'error' with a non-empty
\* message and no 'result'.
C2_InvalidCreateLeavesTable ==
    [][(/\ Called("create_api_token")
        /\ request'.method = "POST"
        /\ check(new_api_token(request'.params)) /= "")
       => (/\ api_tokens' = api_tokens
           /\ response'.kind = "error"
           /\ response'.error /= ""
           /\ response'.result = "")]_vars

C2_Witness ==
    /\ request.op = "create_api_token"
    /\ request.method = "POST"
    /\ request.params.name = ""
    /\ response.kind = "error"
    /\ DOMAIN api_tokens /= {}

\* C3: index lists exactly the caller's own tokens, or the tokens of all
\* accounts when the caller's access set contains ADMIN, and in both cases
\* leaves out revoked tokens unless show_revoked is set.
C3_IndexScope ==
    response.kind = "page" =>
        Range(response.api_tokens) =
            {i \in DOMAIN api_tokens :
                /\ (ADMIN \in access_ints[request.account_id]
                      \/ api_tokens[i].admin_account_id = request.account_id)
                /\ (request.show_revoked \/ api_tokens[i].revoked_time = None)}

\* a non-ADMIN caller's listing that leaves out another account's live token
C3_Witness ==
    /\ response.kind = "page"
    /\ ADMIN \notin access_ints[request.account_id]
    /\ \E i \in DOMAIN api_tokens :
          /\ api_tokens[i].admin_account_id /= request.account_id
          /\ ~IsRevoked(i)
          /\ i \notin Range(response.api_tokens)
    /\ \E i \in DOMAIN api_tokens : i \in Range(response.api_tokens)

\* C4: no call removes a token record (the set of identifiers only grows)
\* and revoke_api_token changes nothing but the revoked_time of the record
\* it targets.
C4_TokensRetained ==
    [][/\ DOMAIN api_tokens \subseteq DOMAIN api_tokens'
       /\ Called("revoke_api_token") =>
             /\ DOMAIN api_tokens' = DOMAIN api_tokens
             /\ \A i \in DOMAIN api_tokens :
                   \/ api_tokens'[i] = api_tokens[i]
                   \/ /\ request'.id = Some(i)
                      /\ api_tokens'[i] =
                            [api_tokens[i] EXCEPT
                                !.revoked_time = api_tokens'[i].revoked_time]]_vars

\* a revoke that took effect while another record exists
C4_Witness ==
    /\ RevokeApplied
    /\ IsRevoked(request.id[1])
    /\ \E i \in DOMAIN api_tokens : i /= request.id[1] /\ ~IsRevoked(i)

\* C5: revoke_api_token without an identifier (missing or empty) or with a
\* method other than POST redirects to 'index', surfaces no error and
\* leaves every token record unchanged.
C5_RevokeGuard ==
    [][(/\ Called("revoke_api_token")
        /\ (request'.id = None \/ request'.id = Some("") \/ request'.method /= "POST"))
       => (/\ api_tokens' = api_tokens
           /\ response'.kind = "redirect"
           /\ response'.location = "index"
           /\ response'.error = "")]_vars

\* a POST revoke with an empty id while a live token exists
C5_Witness ==
    /\ request.op = "revoke_api_token"
    /\ request.method = "POST"
    /\ request.id = Some("")
    /\ response.location = "index"
    /\ \E i \in DOMAIN api_tokens : ~IsRevoked(i)

\* C6: create_api_token persists a token iff the method is POST and check
\* passes; then exactly one record is added and its id is the 'result';
\* a non-POST request returns the error 'POST required' and changes nothing.
C6_CreateIffPostAndValid ==
    [][Called("create_api_token") =>
         IF request'.method = "POST"
              /\ check(new_api_token(request'.params)) = ""
         THEN /\ response'.kind = "result"
              /\ response'.result \notin DOMAIN api_tokens
              /\ DOMAIN api_tokens' = DOMAIN api_tokens \cup {response'.result}
              /\ \A i \in DOMAIN api_tokens : api_tokens'[i] = api_tokens[i]
         ELSE /\ api_tokens' = api_tokens
              /\ response'.kind = "error"
              /\ request'.method /= "POST" => response'.error = "POST required"]_vars

\* a successful create that added a second record
C6_Witness ==
    /\ request.op = "create_api_token"
    /\ response.kind = "result"
    /\ response.result \in DOMAIN api_tokens
    /\ Cardinality(DOMAIN api_tokens) >= 2

\* C16: every record a create_api_token call adds carries the account_id of
\* the caller's session as its admin_account_id, whatever admin_account_id
\* the request parameters name; so every token of the table is owned by an
\* account that created it.
C16_CreatedTokenOwnedByCaller ==
    [][Called("create_api_token") =>
          \A i \in DOMAIN api_tokens' \ DOMAIN api_tokens :
             api_tokens'[i].admin_account_id = request'.account_id]_vars

\* a create whose parameters named the other account
C16_Witness ==
    /\ request.op = "create_api_token"
    /\ response.kind = "result"
    /\ request.params.admin_account_id /= request.account_id
    /\ api_tokens[response.result].admin_account_id = request.account_id

\* C17 as stated: a revoke_api_token call by an account whose access set
\* does not contain ADMIN leaves the revoked_time of every token of another
\* account as it was.
C17_AsStated ==
    [][(Called("revoke_api_token")
           /\ ADMIN \notin access_ints[request'.account_id]) =>
          \A i \in DOMAIN api_tokens :
             api_tokens[i].admin_account_id /= request'.account_id =>
                api_tokens'[i].revoked_time = api_tokens[i].revoked_time]_vars

\* C18: a token with a non-null revoked_time keeps a non-null revoked_time
\* through every index, create_api_token and revoke_api_token call, and no
\* listing with show_revoked false contains it.
C18_RevocationPermanent ==
    [][/\ \A i \in DOMAIN api_tokens :
             IsRevoked(i) =>
                /\ i \in DOMAIN api_tokens'
                /\ api_tokens'[i].revoked_time /= None
       /\ (Called("index") /\ ~request'.show_revoked) =>
             \A i \in DOMAIN api_tokens :
                IsRevoked(i) => i \notin Range(response'.api_tokens)]_vars

\* a default listing, later than the revocation, by a caller who could see
\* the revoked token
C18_Witness ==
    /\ response.kind = "page"
    /\ ~request.show_revoked
    /\ \E i \in DOMAIN api_tokens :
          /\ IsRevoked(i)
          /\ api_tokens[i].revoked_time[1] < utcnow
          /\ VisibleToCaller(i)
          /\ i \notin Range(response.api_tokens)

\* ---------------------------------------------------------------------
\* Properties of the attendee price
\* ---------------------------------------------------------------------
\* the moments (date, badges sold) that lie before the current one
EarlierMoments == (0..localized_now) \X (0..badges_sold)

\* the price get_attendee_price() gave at moment m
PriceAtMoment(m) == get_attendee_price(pricing, None, m[1], m[2])

\* C7 as stated: for any configured INITIAL_ATTENDEE, PRICE_BUMPS and
\* PRICE_LIMITS, the price read now is at least the price at every earlier
\* moment (earlier date, no more badges sold).
C7_AsStated ==
    (read.kind = "price" /\ read.dt = None) =>
        \A m \in EarlierMoments : PriceAtMoment(m) <= read.price

\* the bump amounts do not decrease in date order, starting from the base
BumpsAscending ==
    /\ \A d \in DOMAIN pricing.PRICE_BUMPS :
          pricing.INITIAL_ATTENDEE <= pricing.PRICE_BUMPS[d]
    /\ \A d1, d2 \in DOMAIN pricing.PRICE_BUMPS :
          d1 <= d2 => pricing.PRICE_BUMPS[d1] <= pricing.PRICE_BUMPS[d2]

\* C7 amended: when the configured bump amounts do not decrease in date
\* order and are not below INITIAL_ATTENDEE, the price read now is at least
\* the price at every earlier moment that lies on the same side of EPOCH.
C7_Amended ==
    (read.kind = "price" /\ read.dt = None /\ BumpsAscending) =>
        \A m \in EarlierMoments :
            ((m[1] < pricing.EPOCH) <=> (localized_now < pricing.EPOCH))
                => PriceAtMoment(m) <= read.price

\* a read after a date bump and a price limit both raised the price
C7_Witness ==
    /\ read.kind = "price" /\ read.dt = None
    /\ BumpsAscending
    /\ pricing.PRICE_BUMPS_ENABLED
    /\ ~pricing.HARDCORE_OPTIMIZATIONS_ENABLED
    /\ localized_now < pricing.EPOCH
    /\ \E d \in DOMAIN pricing.PRICE_BUMPS :
          d <= localized_now /\ pricing.PRICE_BUMPS[d] > pricing.INITIAL_ATTENDEE
    /\ \E m \in EarlierMoments :
          /\ m[1] < localized_now
          /\ PriceAtMoment(m) < PriceAtMoment(<<localized_now, m[2]>>)
          /\ PriceAtMoment(<<localized_now, m[2]>>) < read.price

\* the price after the date bumps alone, for reference time ref
DateBumpPrice(ref) ==
    LET applicable == {d \in DOMAIN pricing.PRICE_BUMPS : d <= ref}
    IN IF applicable = {} THEN pricing.INITIAL_ATTENDEE
       ELSE pricing.PRICE_BUMPS[Max(applicable)]

\* the amounts of the price limits whose badge cap has been reached
ReachedLimitAmounts ==
    {pricing.PRICE_LIMITS[cap] : cap \in {k \in DOMAIN pricing.PRICE_LIMITS : k <= badges_sold}}

\* C8: the price is INITIAL_ATTENDEE when PRICE_BUMPS_ENABLED is off;
\* otherwise it is the amount of the latest-dated bump whose date is <= the
\* reference time (INITIAL_ATTENDEE if there is none), raised - only with no
\* dt, HARDCORE_OPTIMIZATIONS_ENABLED off and the clock before EPOCH - to the
\* highest limit amount whose cap is <= BADGES_SOLD, and never below the
\* date-bump price.
C8_PriceDerivation ==
    read.kind = "price" =>
        LET ref == IF read.dt = None THEN localized_now ELSE read.dt[1]
            limited == /\ read.dt = None
                       /\ ~pricing.HARDCORE_OPTIMIZATIONS_ENABLED
                       /\ localized_now < pricing.EPOCH
        IN IF ~pricing.PRICE_BUMPS_ENABLED
           THEN read.price = pricing.INITIAL_ATTENDEE
           ELSE /\ read.price >= DateBumpPrice(ref)
                /\ read.price = IF limited
                                THEN Max({DateBumpPrice(ref)} \cup ReachedLimitAmounts)
                                ELSE DateBumpPrice(ref)

\* a read where a later, cheaper bump won and a reached limit raised it again
C8_Witness ==
    /\ read.kind = "price" /\ read.dt = None
    /\ pricing.PRICE_BUMPS_ENABLED
    /\ DOMAIN pricing.PRICE_BUMPS = BumpDays
    /\ \A d \in BumpDays : d <= localized_now
    /\ pricing.PRICE_BUMPS[Max(BumpDays)] < pricing.PRICE_BUMPS[Min(BumpDays)]
    /\ read.price > DateBumpPrice(localized_now)
    /\ Cardinality(ReachedLimitAmounts) = 2

\* ---------------------------------------------------------------------
\* Properties of the attribute fallback
\* ---------------------------------------------------------------------
\* the latest read was of X_AVAILABLE, which is not defined on c
ReadOfAvailable ==
    /\ read.kind = "attr"
    /\ read.name \notin DOMAIN attrs
    /\ Len(read.name) >= 2
    /\ read.name[Len(read.name)] = "AVAILABLE"

\* what the claim says X_AVAILABLE is, for the item X
AvailableAsClaimed(X) ==
    LET X_STOCK == Append(X, "STOCK")
        X_COUNT == getattr_default(Append(X, "COUNT"), NoneValue)
    IN IF X_STOCK \notin DOMAIN attrs THEN BoolValue(TRUE)
       ELSE IF X_COUNT = NoneValue THEN BoolValue(FALSE)
       ELSE BoolValue(X_COUNT.v < attrs[X_STOCK].v)

\* C9 as stated: for any name X with no directly defined X_AVAILABLE,
\* reading X_AVAILABLE gives true when no X_STOCK setting exists, false when
\* X_STOCK exists but X_COUNT is None, and otherwise X_COUNT < X_STOCK.
C9_AsStated ==
    ReadOfAvailable =>
        LET X == SubSeq(read.name, 1, Len(read.name) - 1)
        IN read.result = AvailableAsClaimed(X)

\* C9 amended: the same, for any name X whose first word is neither BEFORE
\* nor AFTER; a stock of 0 is then never available.
C9_Amended ==
    ReadOfAvailable =>
        LET X == SubSeq(read.name, 1, Len(read.name) - 1)
        IN (X = <<>> \/ X[1] \notin {"BEFORE", "AFTER"}) =>
              /\ read.result = AvailableAsClaimed(X)
              /\ (Append(X, "STOCK") \in DOMAIN attrs
                    /\ attrs[Append(X, "STOCK")] = IntValue(0))
                       => read.result = BoolValue(FALSE)

\* ATTENDEE_BADGE_AVAILABLE read when the count has just reached the stock
C9_Witness ==
    /\ ReadOfAvailable
    /\ read.name = <<"ATTENDEE", "BADGE", "AVAILABLE">>
    /\ <<"ATTENDEE", "BADGE">> \in DOMAIN attrs
    /\ <<"ATTENDEE", "BADGE", "STOCK">> \in DOMAIN attrs
    /\ attrs[<<"ATTENDEE", "BADGE", "STOCK">>].v = attendees[ATTENDEE_BADGE]
    /\ attendees[ATTENDEE_BADGE] >= 1
    /\ read.result = BoolValue(FALSE)

\* the first rule of the chain, in the order and with the tests the claim
\* gives, that matches the name
RuleAsClaimed(name) ==
    IF Len(name) >= 2 /\ name[1] \in {"BEFORE", "AFTER"} THEN "BEFORE_AFTER"
    ELSE IF Len(name) >= 2 /\ name[1] = "HAS" /\ name[Len(name)] = "ACCESS"
         THEN "HAS_ACCESS"
    ELSE IF Len(name) >= 2 /\ name[Len(name)] = "COUNT" THEN "COUNT"
    ELSE IF Len(name) >= 2 /\ name[Len(name)] = "AVAILABLE" THEN "AVAILABLE"
    ELSE IF name \in DOMAIN _secret THEN "_secret"
    ELSE IF Lower(name) \in DOMAIN config_secret THEN "config_secret"
    ELSE "AttributeError"

\* the read of an undefined name went by the first matching rule, the two
\* secret stores give their value, and no match raises AttributeError(name)
ResolvedAsClaimed ==
    /\ read.rule = RuleAsClaimed(read.name)
    /\ read.rule = "_secret" => read.result = _secret[read.name]
    /\ read.rule = "config_secret" => read.result = config_secret[Lower(read.name)]
    /\ read.rule = "AttributeError" => read.result = Raise("AttributeError", read.name)
    /\ RuleAsClaimed(read.name) = "AttributeError"
          => read.result = Raise("AttributeError", read.name)

\* C10: an attribute not defined on c is resolved by the first matching
\* rule of the chain BEFORE_/AFTER_ prefix, HAS_..._ACCESS, _COUNT suffix,
\* _AVAILABLE suffix, secrets object, 'secret' section, never by a later
\* one, and a name matching none raises a missing-attribute error that
\* names the attribute.
C10_AsStated ==
    (read.kind = "attr" /\ read.name \notin DOMAIN attrs) => ResolvedAsClaimed

\* the chain is as described for every name but the bare words BEFORE and
\* AFTER, which the first branch takes although they carry no prefix
ChainOrderButBareWords ==
    (read.kind = "attr" /\ read.name \notin DOMAIN attrs
        /\ read.name \notin {<<"BEFORE">>, <<"AFTER">>}) => ResolvedAsClaimed

\* C11: for the datetime option EPOCH, BEFORE_EPOCH is true exactly when the
\* clock is strictly earlier than EPOCH and AFTER_EPOCH exactly when it is
\* strictly later; they are never both true, both are false at the instant
\* EPOCH, and both are false when EPOCH is unset (None).
C11_BeforeAfterStrict ==
    (read.kind = "attr"
        /\ read.name \in {<<"BEFORE", "EPOCH">>, <<"AFTER", "EPOCH">>}) =>
        LET X == attrs[<<"EPOCH">>]
            before == getattr_c(<<"BEFORE", "EPOCH">>)
            after == getattr_c(<<"AFTER", "EPOCH">>)
        IN /\ read.result = IF read.name[1] = "BEFORE" THEN before ELSE after
           /\ before = BoolValue(X.t = "datetime" /\ localized_now < X.v)
           /\ after = BoolValue(X.t = "datetime" /\ localized_now > X.v)
           /\ ~(before = BoolValue(TRUE) /\ after = BoolValue(TRUE))
           /\ (X.t = "datetime" /\ localized_now = X.v)
                 => (before = BoolValue(FALSE) /\ after = BoolValue(FALSE))
           /\ X = NoneValue
                 => (before = BoolValue(FALSE) /\ after = BoolValue(FALSE))

\* BEFORE_EPOCH read at the very instant EPOCH
C11_Witness ==
    /\ read.kind = "attr"
    /\ read.name = <<"BEFORE", "EPOCH">>
    /\ attrs[<<"EPOCH">>] = Datetime(localized_now)
    /\ read.result = BoolValue(FALSE)

\* ---------------------------------------------------------------------
\* Properties of the startup code
\* ---------------------------------------------------------------------
\* the attribute name a [dates] option is stored under
DateAttribute(opt) == IF opt = <<"epoch">> THEN <<"EPOCH">> ELSE <<"ESCHATON">>

\* the day, the hour and the minute a datetime shows
DayOf(dt) == dt.v \div (24 * 60)

HourOf(dt) == (dt.v \div 60) % 24

MinuteOf(dt) == dt.v % 60

\* C12: a make_dates call that returns has set, for every option of the
\* section: None and no new DATES entry for an empty value; for a value with
\* a date and an hour that hour, minute 0, of that date; for a date-only
\* value 23:59 of that date; both localized to EVENT_TIMEZONE and recorded in
\* DATES under the uppercased option name.
C12_MakeDatesParses ==
    [][(read'.kind = "make_dates" /\ read'.result = NoneValue) =>
          \A i \in DOMAIN read'.arg :
             LET _val == read'.arg[i].val
                 X == DateAttribute(read'.arg[i].opt)
             IN /\ X \in DOMAIN attrs'
                /\ _val = <<>> =>
                      /\ attrs'[X] = NoneValue
                      /\ X \in DOMAIN DATES' =>
                            (X \in DOMAIN DATES /\ DATES'[X] = DATES[X])
                /\ _val /= <<>> =>
                      /\ attrs'[X].t = "datetime"
                      /\ attrs'[X].name = attrs[<<"EVENT", "TIMEZONE">>].name
                      /\ DayOf(attrs'[X]) = _val[1].n
                      /\ HourOf(attrs'[X]) = IF Len(_val) = 2 THEN _val[2].n ELSE 23
                      /\ MinuteOf(attrs'[X]) = IF Len(_val) = 2 THEN 0 ELSE 59
                      /\ X \in DOMAIN DATES'
                      /\ DATES'[X] = attrs'[X]]_vars

\* a section with a date-and-hour value and a date-only value was read in
C12_Witness ==
    /\ read.kind = "make_dates"
    /\ read.result = NoneValue
    /\ Len(read.arg) = 2
    /\ Len(read.arg[1].val) = 2
    /\ Len(read.arg[2].val) = 1
    /\ HourOf(DATES[<<"EPOCH">>]) = 10
    /\ HourOf(DATES[<<"ESCHATON">>]) = 23

\* the attribute name an enum name is stored under
EnumAttribute(name) ==
    IF name = <<"attendee", "badge">> THEN <<"ATTENDEE", "BADGE">>
    ELSE <<"STRIPE">>

\* C13: create_enum_val returns an integer that the attribute named by the
\* uppercased name holds after the call, and a call for a name whose
\* uppercased attribute an earlier call has set (under the same name or one
\* differing only in case, in whatever state c is by then) returns the value
\* that earlier call stored.
C13_EnumValStable ==
    [][read'.kind = "create_enum_val" =>
          LET X == EnumAttribute(read'.arg)
          IN /\ read'.result.t = "int"
             /\ X \in DOMAIN attrs'
             /\ attrs'[X] = read'.result
             /\ X \in DOMAIN attrs => read'.result = attrs[X]]_vars

\* a call with a mixed-case name has stored the value of the upper-case name
C13_Witness ==
    /\ read.kind = "create_enum_val"
    /\ read.arg = <<"Stripe">>
    /\ <<"STRIPE">> \in DOMAIN attrs
    /\ attrs[<<"STRIPE">>] = read.result
    /\ <<"EPOCH">> \in DOMAIN DATES

\* ---------------------------------------------------------------------
\* Properties of the reads within one request
\* ---------------------------------------------------------------------
\* the first read of a request computed its value from the clock and the
\* database as they were at that moment
FirstReadComputed(n) ==
    LET e == request_reads[n]
    IN /\ n = <<"BADGES", "SOLD">> => e.first = IntValue(e.sold)
       /\ n = <<"BEFORE", "EPOCH">> =>
             e.first = BoolValue(e.now < attrs[<<"EPOCH">>].v)
       /\ n = <<"AFTER", "EPOCH">> =>
             e.first = BoolValue(e.now > attrs[<<"EPOCH">>].v)

\* C14 as stated: within a request every read of badges sold, of the badge
\* price and of a BEFORE_/AFTER_ check returns what the first read of that
\* request returned, whatever the clock and the database did in between, and
\* the first read of a request computes the value afresh.
C14_AsStated ==
    \A n \in DOMAIN request_reads :
       /\ request_reads[n].last = request_reads[n].first
       /\ FirstReadComputed(n)

\* C14 amended: within a request every read of BADGES_SOLD returns what the
\* first read returned even when the database has changed, and the first
\* read of a request computes the value afresh; a read of BADGE_PRICE or of
\* a BEFORE_/AFTER_ check returns what the first read returned as long as
\* the clock still shows the time of the first read.
C14_Amended ==
    \A n \in DOMAIN request_reads :
       /\ n = <<"BADGES", "SOLD">> =>
             request_reads[n].last = request_reads[n].first
       /\ localized_now = request_reads[n].now =>
             request_reads[n].last = request_reads[n].first
       /\ FirstReadComputed(n)

\* a request in which the price changed with the clock while the database
\* count moved on behind the cached BADGES_SOLD
C14_Witness ==
    /\ <<"BADGES", "SOLD">> \in DOMAIN request_reads
    /\ <<"BADGE", "PRICE">> \in DOMAIN request_reads
    /\ badges_sold > request_reads[<<"BADGES", "SOLD">>].sold
    /\ request_reads[<<"BADGE", "PRICE">>].last
          /= request_reads[<<"BADGE", "PRICE">>].first

\* ---------------------------------------------------------------------
\* Properties of the stored settings
\* ---------------------------------------------------------------------
\* C15 as stated: after startup no step of a request (a read of an attribute,
\* of a computed property, of a REQUIRED_ACCESS entry, a fallback through
\* __getattr__) changes a stored setting: the attributes of c, the contents
\* of DONATION_TIER_DESCRIPTIONS and of REQUIRED_ACCESS stay as they were.
C15_AsStated ==
    [][/\ attrs' = attrs
       /\ config_secret' = config_secret
       /\ DATES' = DATES
       /\ DONATION_TIER_DESCRIPTIONS' = DONATION_TIER_DESCRIPTIONS
       /\ REQUIRED_ACCESS' = REQUIRED_ACCESS]_vars

\* ---------------------------------------------------------------------
\* Properties of AT_THE_DOOR_BADGE_OPTS
\* ---------------------------------------------------------------------
\* C19 as stated: the options AT_THE_DOOR_BADGE_OPTS returns name pairwise
\* distinct badge types, whatever BADGE_TYPE_PRICES, the stock and the
\* one-day settings hold.
C19_AsStated ==
    read.kind = "AT_THE_DOOR_BADGE_OPTS" =>
        \A i, j \in DOMAIN read.result :
            i /= j => read.result[i].badge_type /= read.result[j].badge_type

====
